---- MODULE Spec2Model ----
(***************************************************************************)
(* PyTado: the Http session object (src/PyTado/http.py) with its token     *)
(* manager, as a state machine.  One Http instance is constructed on a     *)
(* token store; afterwards the caller issues request() and                 *)
(* device_activation() calls while the clock advances.  Every HTTP         *)
(* exchange is one step: the environment (token endpoint, resource API,    *)
(* network) picks the reply.                                               *)
(***************************************************************************)
EXTENDS Integers, Sequences, FiniteSets, TLC

(* ------------------------------------------------------------------ *)
(* Program constants                                                    *)
(* ------------------------------------------------------------------ *)
DEFAULT_RETRIES == 5
RefreshMargin == 30
InitialRefreshDelay == 600
DefaultCheckInterval == 10
NoneInt == 0

(* ------------------------------------------------------------------ *)
(* Bounds of the model                                                  *)
(* ------------------------------------------------------------------ *)
MaxTicks == 2
NumProcs == 2

None == "None"

\* the amounts by which the clock advances between two calls
TickSteps == {1}

\* expires_in values a token response carries
ExpiresInValues == {10, 31}

\* token payloads the token endpoint can answer with
TokenPayloads ==
    { [access_token |-> g[1], refresh_token |-> g[2], expires_in |-> e] :
        g \in {<<"a1", "r1">>, <<"a2", "r2">>}, e \in ExpiresInValues }

\* DeviceActivationStatus
NOT_STARTED == "NOT_STARTED"
PENDING == "PENDING"
COMPLETED == "COMPLETED"

(* ------------------------------------------------------------------ *)
(* Python dicts as functions from keys to values                        *)
(* ------------------------------------------------------------------ *)
EmptyDict == [k \in {} |-> None]

SetItem(d, k, v) == [j \in DOMAIN d \cup {k} |-> IF j = k THEN v ELSE d[j]]

Get(d, k) == IF k \in DOMAIN d THEN d[k] ELSE None

(* ------------------------------------------------------------------ *)
(* Response bodies: the text on the wire and what response.json() makes *)
(* of it                                                                *)
(* ------------------------------------------------------------------ *)
MeText1 == "{homes:[{id:1234}]}"
MeText2 == "{homes:[{id:5678}]}"
HomeTextX == "{generation:LINE_X}"
HomeTextPre == "{generation:PRE_LINE_X}"
ErrorText == "{errors:[{code:notFound}]}"
NotJsonText == "<html>"

Texts == {"", MeText1, MeText2, HomeTextX, HomeTextPre, ErrorText, NotJsonText}

IsJson(text) == text \in {MeText1, MeText2, HomeTextX, HomeTextPre, ErrorText}

json(text) ==
    CASE text = MeText1 -> [homes |-> <<[id |-> 1234]>>]
      [] text = MeText2 -> [homes |-> <<[id |-> 5678]>>]
      [] text = HomeTextX -> [generation |-> "LINE_X"]
      [] text = HomeTextPre -> [generation |-> "PRE_LINE_X"]
      [] text = ErrorText -> [errors |-> <<[code |-> "notFound"]>>]

ResourceStatuses == {200, 404}

Responses == [status : ResourceStatuses, text : Texts]

(* ------------------------------------------------------------------ *)
(* TadoRequest descriptors the caller issues                            *)
(* ------------------------------------------------------------------ *)
\* Mode
OBJECT == "OBJECT"
PLAIN == "PLAIN"

\* Endpoint
MY_API == "https://my.tado.com/api/v2/"
HOPS_API == "https://hops.tado.com/"
MOBILE == "https://my.tado.com/mobile/1.9/"

\* Domain
HOME == "homes"
DEVICES == "devices"
ME == "me"
HOME_BY_BRIDGE == "homeByBridge"

\* Action
GET == "GET"
SET == "POST"
RESET == "DELETE"
CHANGE == "PUT"

\* params: None, or a dict given as the sequence of its items
NoParams == [none |-> TRUE, items |-> <<>>]
Params(items) == [none |-> FALSE, items |-> items]

\* TadoRequest.__init__ / TadoXRequest.__init__: class names the variant,
\* action is the slot the action is kept in (self.action, resp. self._action)
NewRequest(class, endpoint, command, action, payload, domain, device, mode, params) ==
    [class |-> class, endpoint |-> endpoint, command |-> command,
     action |-> action, payload |-> payload, domain |-> domain,
     device |-> device, mode |-> mode, params |-> params]

\* a TadoRequest with the defaults of its constructor for the other arguments
TadoRequest(action, domain, command, payload, mode) ==
    NewRequest("TadoRequest", MY_API, command, action, payload, domain, None,
               mode, NoParams)

\* a TadoXRequest with the defaults of its constructor for the other arguments
TadoXRequest(action, domain, command, payload, mode) ==
    NewRequest("TadoXRequest", HOPS_API, command, action, payload, domain, None,
               mode, NoParams)

\* request.action = value
SetAction(request, value) == [request EXCEPT !.action = value]

\* faulty variant: the remapping is lost, the set action is returned as it is
ActionOfPlain(request) == request.action

\* request.action: the attribute of a TadoRequest, the property of a
\* TadoXRequest
ActionOf(request) ==
    IF request.class = "TadoXRequest" /\ request.action = CHANGE THEN "PATCH"
    ELSE request.action

\* _get_id: TadoRequest(); action = GET; domain = ME
GetIdRequest == TadoRequest("GET", "me", None, None, OBJECT)

\* _check_x_line_generation: TadoRequest(); action = GET; domain = HOME; command = ""
HomeInfoRequest == TadoRequest("GET", "homes", "", None, OBJECT)

CallerRequests ==
    { TadoRequest("GET", "homes", "zones", None, OBJECT),
      TadoRequest("PUT", "homes", "presenceLock", "{homePresence:HOME}", OBJECT),
      TadoXRequest("PUT", "homes", "roomsAndDevices/devices/d1",
                   "{temperatureOffset:0}", OBJECT) }

(* ------------------------------------------------------------------ *)
(* State                                                                *)
(* ------------------------------------------------------------------ *)
VARIABLES
    now,                      \* the wall clock, in seconds
    ticks,                    \* clock advances so far
    \* --- control: the call in progress and the position in it
    pc,                       \* "new", "refresh_wait", "login", "authorize_wait",
                              \* "ready", "req", "prepare", "send", "done", "idle",
                              \* "dead"
    op,                       \* "init", "request", "activation" or "none"
    phase,                    \* who called request(): "none", "get_id", "x_line"
    force,                    \* force_refresh of the _refresh_token call in progress
    cur,                      \* the TadoRequest of the request() in progress
    retries,                  \* the retry loop's counter
    prepped,                  \* the headers of the prepared request
    url,                      \* the URL of the prepared request
    \* --- fields of Http
    refresh_at,               \* self._refresh_at
    headers,                  \* self._headers
    token_refresh,            \* self._token_refresh
    user_code,                \* self._user_code
    device_code,              \* self._device_code
    device_verification_url,  \* self._device_verification_url
    device_activation_status, \* self._device_activation_status
    check_interval,           \* self._device_activation_check_interval
    expires_at,               \* self._expires_at
    id,                       \* self._id
    x_api,                    \* self._x_api
    \* --- the token manager
    sync_file,                \* the sync file: whether it exists, and its JSON document
    tm_token_refresh,         \* the token manager's _token_refresh
    tm_refresh_at,            \* the token manager's _refresh_at
    \* --- what an observer of the wire and of the caller sees
    sends,                    \* send attempts of the current request()
    connErrors,               \* connection errors those attempts raised
    recreated,                \* sessions the retry loop closed and recreated
    tokenCalls,               \* refresh_token-grant calls of the current request()
    dueAtStart,               \* now > _refresh_at when the current request() began
    lastResp,                 \* the response the current request() received
    ret,                      \* how the last request() ended
    result,                   \* what the last request() returned
    calls,                    \* kinds of HTTP call sent during the current operation
    wire,                     \* the last HTTP call sent
    lastRefresh,              \* the last _refresh_token call that reached the endpoint
    grant,                    \* time and expires_in of the last token payload installed
    outcome,                  \* how the last operation of the caller ended
    given,                    \* the verb last set on the descriptor under study
    seen,                     \* what reading the descriptor's action returned
    tm_ret,                   \* the last call on the token manager and its result
    lock,                     \* the flock this process holds on the sync file
    section,                  \* the with-block of the token manager being executed
    procs,                    \* per process: its position in Http.__init__ and its codes
    issued,                   \* device_authorize requests the endpoint has answered
    committed                 \* the document of the last save that was completed

clockVars == <<now, ticks>>
ctlVars == <<pc, op, phase, force, cur, retries, prepped, url>>
codeVars == <<user_code, device_code, device_verification_url,
              check_interval, expires_at>>
httpVars == <<refresh_at, headers, token_refresh, codeVars,
              device_activation_status, id, x_api>>
tmVars == <<sync_file, tm_token_refresh, tm_refresh_at>>
loopVars == <<sends, connErrors, recreated>>
reqObsVars == <<loopVars, tokenCalls, dueAtStart, lastResp>>
obsVars == <<reqObsVars, ret, result, calls, wire, lastRefresh, grant, outcome>>
descVars == <<given, seen>>
storeVars == <<tm_ret, lock, section>>
multiVars == <<procs, issued, committed>>
unitVars == <<descVars, storeVars, multiVars>>
vars == <<clockVars, ctlVars, httpVars, tmVars, obsVars, unitVars>>

\* Python truthiness of an optional string and of a dict
Truthy(s) == s # None /\ s # ""
NonEmpty(d) == DOMAIN d # {}

(* ------------------------------------------------------------------ *)
(* The token manager (DeviceTokenManager over TokenManagerInterface)    *)
(* ------------------------------------------------------------------ *)
OAUTH_DATA_KEY == "oauth_data"
PENDING_DEVICE_KEY == "pending_device"

MissingFile == [exists |-> FALSE, data |-> EmptyDict]

\* _load_sync_file: {} when the file does not exist, else its document
LoadSyncFile(f) == IF ~f.exists THEN EmptyDict ELSE f.data

\* _save_sync_file: the document replaces the file's content
SaveSyncFile(data) == [exists |-> TRUE, data |-> data]

\* load_token: what it leaves in the manager's _token_refresh, which it returns
LoadToken(f, cached) ==
    LET data == LoadSyncFile(f)
        oauth == IF OAUTH_DATA_KEY \in DOMAIN data THEN data[OAUTH_DATA_KEY]
                 ELSE EmptyDict
    IN  IF NonEmpty(data) THEN Get(oauth, "refresh_token") ELSE cached

\* _set_oauth_data, as load_token calls it: the manager's _refresh_at
TmRefreshAt(f, cachedAt, t) ==
    LET data == LoadSyncFile(f)
        oauth == IF OAUTH_DATA_KEY \in DOMAIN data THEN data[OAUTH_DATA_KEY]
                 ELSE EmptyDict
        expires_in == IF "expires_in" \in DOMAIN oauth THEN oauth["expires_in"] ELSE 0
    IN  IF NonEmpty(data) THEN t + expires_in - RefreshMargin ELSE cachedAt

\* faulty variant: the oauth data is added to the stored document
OAuthDocumentMerged(stored, oauth_data) == SetItem(stored, OAUTH_DATA_KEY, oauth_data)

\* save_oauth_data, line 76: {OAUTH_DATA_KEY: oauth_data}, whatever is stored
OAuthDocument(stored, oauth_data) == SetItem(EmptyDict, OAUTH_DATA_KEY, oauth_data)

\* save_oauth_data: the document written to the sync file
SaveOAuthData(oauth_data) == SaveSyncFile(OAuthDocument(EmptyDict, oauth_data))

\* save_token(refresh_token): durably overwrites the prior value
SaveToken(refresh_token) == SaveOAuthData([refresh_token |-> refresh_token])

\* faulty variant: a stored record counts as pending whatever its expiry
HasPendingIgnoresExpiry(f, t) ==
    LET device_data == LoadSyncFile(f)
    IN  IF NonEmpty(device_data) /\ PENDING_DEVICE_KEY \in DOMAIN device_data
        THEN "True" ELSE "False"

\* has_pending_device_data: "True", "False", or the KeyError of a record
\* that has no expires_at
HasPendingDeviceData(f, t) ==
    LET device_data == LoadSyncFile(f)
    IN  IF ~(NonEmpty(device_data) /\ PENDING_DEVICE_KEY \in DOMAIN device_data)
        THEN "False"
        ELSE IF "expires_at" \notin DOMAIN device_data[PENDING_DEVICE_KEY]
        THEN "KeyError"
        ELSE IF t < device_data[PENDING_DEVICE_KEY]["expires_at"] THEN "True"
        ELSE "False"

\* faulty variant: empty data is stored as a pending record too
SavePendingAlways(device_data) ==
    SaveSyncFile(SetItem(EmptyDict, PENDING_DEVICE_KEY, device_data))

\* save_pending_device_data
SavePendingDeviceData(device_data) ==
    IF ~NonEmpty(device_data) THEN SaveSyncFile(EmptyDict)
    ELSE SaveSyncFile(SetItem(EmptyDict, PENDING_DEVICE_KEY, device_data))

\* load_pending_device_data, called when has_pending_device_data returned True
LoadPendingDeviceData(f) == LoadSyncFile(f)[PENDING_DEVICE_KEY]

\* a device_authorize payload, as the endpoint answers it
DevicePayload ==
    [device_code |-> "XXX_code_XXX", user_code |-> "7BQ5ZQ",
     verification_uri |-> "https://login.tado.com/oauth2/device",
     expires_in |-> 300, interval |-> 1]

\* a pending record that carries the absolute expiry has_pending_device_data reads
StoredPending(t) ==
    [device_code |-> "dc0", user_code |-> "OLD123",
     verification_uri |-> "https://login.tado.com/oauth2/device",
     expires_in |-> 300, interval |-> 5, expires_at |-> t]

\* what the sync file can hold when an Http is constructed on it
InitialFiles ==
    { MissingFile,
      SaveToken("r0"),
      SavePendingDeviceData(DevicePayload),
      SavePendingDeviceData(StoredPending(100)),
      SavePendingDeviceData(StoredPending(0)) }

(* ------------------------------------------------------------------ *)
(* Observations                                                         *)
(* ------------------------------------------------------------------ *)
NoResponse == [status |-> 0, text |-> ""]
NoRet == [kind |-> "none", why |-> "none"]
Running == [kind |-> "running", why |-> "none"]
Ok == [kind |-> "ok", why |-> "none"]
Raised(kind, why) == [kind |-> kind, why |-> why]
Wire(kind, arg) ==
    [kind |-> kind, arg |-> arg, auth |-> None, status |-> device_activation_status]
NoWire == [kind |-> "none", arg |-> None, auth |-> None, status |-> NOT_STARTED]
NoRefresh == [forced |-> FALSE, status |-> 0, returned |-> "none"]
NoGrant == [at |-> 0, expires_in |-> 0, installed |-> FALSE]
NoBefore == [op |-> "none", arg |-> EmptyDict, kind |-> "none"]
NoPrev == [op |-> "none", arg |-> EmptyDict, kind |-> "none", before |-> NoBefore]
NoCall == [op |-> "none", arg |-> EmptyDict, kind |-> "none", value |-> None,
           at |-> 0, prev |-> NoPrev]
NoSection == [op |-> "none", arg |-> EmptyDict]
NotGiven == [verb |-> None, by |-> "none"]

\* fcntl lock types
LOCK_UN == "LOCK_UN"
LOCK_SH == "LOCK_SH"
LOCK_EX == "LOCK_EX"

(* ------------------------------------------------------------------ *)
(* Http.__init__, lines 177-191: the state after the fields are set     *)
(* ------------------------------------------------------------------ *)
Init ==
    /\ now = 0
    /\ ticks = 0
    /\ pc = "new" /\ op = "init" /\ phase = "none" /\ force = FALSE
    /\ cur = GetIdRequest /\ retries = DEFAULT_RETRIES
    /\ prepped = EmptyDict
    /\ url = None
    /\ refresh_at = now + InitialRefreshDelay
    /\ headers = [Referer |-> "https://app.tado.com/"]
    /\ token_refresh = None
    /\ user_code = None /\ device_code = None /\ device_verification_url = None
    /\ device_activation_status = NOT_STARTED
    /\ check_interval = DefaultCheckInterval
    /\ expires_at = None
    /\ id = NoneInt
    /\ x_api = None
    /\ sync_file \in InitialFiles
    /\ tm_token_refresh = None
    /\ tm_refresh_at = now - InitialRefreshDelay
    /\ sends = 0 /\ connErrors = 0 /\ recreated = 0 /\ tokenCalls = 0
    /\ dueAtStart = FALSE
    /\ lastResp = NoResponse
    /\ ret = NoRet
    /\ result = EmptyDict
    /\ calls = {}
    /\ wire = NoWire
    /\ lastRefresh = NoRefresh
    /\ grant = NoGrant
    /\ outcome = Running
    /\ given = NotGiven /\ seen = None
    /\ tm_ret = NoCall /\ lock = LOCK_UN /\ section = NoSection
    /\ procs = <<>> /\ issued = 0 /\ committed = EmptyDict

(* ------------------------------------------------------------------ *)
(* Pure helpers of Http                                                 *)
(* ------------------------------------------------------------------ *)
\* f"Bearer {access_token}"
Bearer(access_token) ==
    CASE access_token = "a1" -> "Bearer a1"
      [] access_token = "a2" -> "Bearer a2"

\* f"{verification_uri}?{urlencode({'user_code': user_code})}"
VisitUrl(verification_uri, code) ==
    CASE code = "7BQ5ZQ" -> "https://login.tado.com/oauth2/device?user_code=7BQ5ZQ"
      [] code = "OLD123" -> "https://login.tado.com/oauth2/device?user_code=OLD123"

\* _configure_payload: the headers dict it was handed, after the call
ConfigurePayload(h, request) ==
    IF request.payload = None THEN h
    ELSE SetItem(
           SetItem(h, "Content-Type",
                   IF request.mode = PLAIN THEN "text/plain;charset=UTF-8"
                   ELSE "application/json;charset=UTF-8"),
           "Mime-Type", "application/json;charset=UTF-8")

\* faulty variant: no safety margin
RefreshDeadlineNoMargin(t, expires_in) == t + expires_in

\* the deadline _set_oauth_header computes from a token payload at time t
RefreshDeadline(t, expires_in) == t + expires_in - RefreshMargin

\* faulty variant: the deadline itself already counts as expired
NotDueStrict(deadline, t, force_refresh) == deadline > t /\ ~force_refresh

\* _refresh_token, line 392: nothing to do
NotDue(deadline, t, force_refresh) == deadline >= t /\ ~force_refresh

\* faulty variant: every exception of send is retried
HandlerRetriesAll(event) == IF event = "response" THEN "break" ELSE "retry"

\* the retry loop, lines 293-312: what follows each outcome of send
Handler(event) ==
    CASE event = "response" -> "break"
      [] event = "TadoWrongCredentialsException" -> "raise"
      [] event = "ConnectionError" -> "retry"
      [] OTHER -> "raise"

\* faulty variant: one retry too many
MayRetryOnceMore(r) == r >= 0

\* the retry loop's test after a connection error, line 301
MayRetry(r) == r > 0

\* while retries >= 0, line 293
LoopContinues(r) == r >= 0

\* faulty variant: the retry reuses the session
RecreateNot(n) == n

\* lines 303-304: the session is closed and a new one created
Recreate(n) == n + 1

\* faulty variant: a rejected refresh always returns False
OnRejectedNeverRaises(force_refresh) == "False"

\* _refresh_token, lines 421-432: a status other than 200
OnRejected(force_refresh) == IF force_refresh THEN "False" ELSE "raise"

\* faulty variant: __init__ starts the device flow although the refresh succeeded
AfterRefreshLogin(force_refresh) == IF force_refresh THEN "login" ELSE "prepare"

\* where a successful _refresh_token returns to: __init__ (line 197) goes
\* on with _device_ready, request() (line 281) with the request
AfterRefresh(force_refresh) == IF force_refresh THEN "ready" ELSE "prepare"

\* request(), lines 314-317: the value returned for a response
Returned(response) == IF response.text = "" THEN EmptyDict ELSE json(response.text)

\* faulty variant: anything but the X line is left unresolved
IsXLineOrNone(home_) ==
    IF "generation" \in DOMAIN home_ /\ home_["generation"] = "LINE_X"
    THEN "True" ELSE None

\* faulty variant: any generation entry counts as the X line
IsXLineAnyGeneration(home_) ==
    IF "generation" \in DOMAIN home_ THEN "True" ELSE "False"

\* _check_x_line_generation, line 589
IsXLine(home_) ==
    IF "generation" \in DOMAIN home_ /\ home_["generation"] = "LINE_X"
    THEN "True" ELSE "False"

(* ------------------------------------------------------------------ *)
(* How a call ends                                                      *)
(* ------------------------------------------------------------------ *)
\* an exception leaves the call in progress: out of __init__ no instance
\* is left, otherwise the caller has the exception in hand
Raise(exc) ==
    /\ pc' = IF op = "init" THEN "dead" ELSE "done"
    /\ op' = op
    /\ outcome' = exc

\* _set_device_auth_data, lines 482-499: the pending data is saved, the
\* codes are set, and line 496 reads self._device_flow_data, an attribute
\* that is never assigned
SetDeviceAuthData(device_flow_data) ==
    /\ sync_file' = SavePendingDeviceData(device_flow_data)
    /\ user_code' = Get(device_flow_data, "user_code")
    /\ device_code' = Get(device_flow_data, "device_code")
    /\ device_verification_url' =
         IF Truthy(Get(device_flow_data, "user_code"))
         THEN VisitUrl(device_flow_data["verification_uri"],
                       device_flow_data["user_code"])
         ELSE device_verification_url
    /\ Raise(Raised("AttributeError", "_device_flow_data"))
    /\ UNCHANGED <<check_interval, expires_at, device_activation_status>>

\* faulty variant: the token the instance cached at its last refresh is sent
GrantTokenCached(refresh_token, loaded) ==
    IF Truthy(refresh_token) THEN refresh_token ELSE token_refresh

\* _refresh_token, line 399: refresh_token or self._token_manager.load_token()
GrantToken(refresh_token, loaded) ==
    IF Truthy(refresh_token) THEN refresh_token ELSE loaded

(* ------------------------------------------------------------------ *)
(* Http.__init__, lines 193-199                                         *)
(* ------------------------------------------------------------------ *)
Construct ==
    /\ pc = "new"
    /\ LET saved_refresh_token == LoadToken(sync_file, tm_token_refresh)
       IN  /\ tm_token_refresh' = saved_refresh_token
           /\ tm_refresh_at' = TmRefreshAt(sync_file, tm_refresh_at, now)
           /\ IF Truthy(saved_refresh_token)
              THEN \* _refresh_token(saved_refresh_token, force_refresh=True)
                   /\ pc' = "refresh_wait"
                   /\ force' = TRUE
                   /\ wire' = Wire("refresh_token",
                                    GrantToken(saved_refresh_token, tm_token_refresh'))
                   /\ calls' = calls \cup {"refresh_token"}
              ELSE /\ pc' = "login"
                   /\ UNCHANGED <<force, wire, calls>>
    /\ UNCHANGED <<clockVars, op, phase, cur, retries, prepped, url, httpVars, sync_file,
                   reqObsVars, ret, result, lastRefresh, grant, outcome>>
    /\ UNCHANGED unitVars

(* ------------------------------------------------------------------ *)
(* _refresh_token, lines 404-436: the token endpoint's reply            *)
(* ------------------------------------------------------------------ *)
TokenStatuses == {200, 400}

\* faulty variant: every reply is taken for a token response
AcceptedAny(status) == TRUE

\* _refresh_token, line 421: response.status_code != 200 is a failure
Accepted(status) == status = 200

\* _set_oauth_header
\* faulty variant: the access token is handed to the token manager
TokenToStoreAccess(data) == data.access_token

\* _set_oauth_header, lines 357 and 368: what is handed to the token manager
TokenToStore(data) == data.refresh_token

SetOAuthHeader(data) ==
    /\ token_refresh' = data.refresh_token
    /\ refresh_at' = RefreshDeadline(now, data.expires_in)
    /\ headers' = SetItem(headers, "Authorization", Bearer(data.access_token))
    /\ sync_file' = SaveToken(TokenToStore(data))
    /\ grant' = [at |-> now, expires_in |-> data.expires_in, installed |-> TRUE]

\* the session raises: ConnectionError becomes TadoException, a read
\* timeout propagates as it is
RefreshTransportError ==
    /\ pc = "refresh_wait"
    /\ \E e \in {"ConnectionError", "ReadTimeout"} :
         LET exc == IF e = "ConnectionError"
                    THEN Raised("TadoException", "ConnectionError in _refresh_token")
                    ELSE Raised(e, "_refresh_token")
         IN  /\ Raise(exc)
             /\ ret' = IF force THEN ret ELSE exc
    /\ lastRefresh' = [forced |-> force, status |-> 0, returned |-> "raised"]
    /\ UNCHANGED <<clockVars, phase, force, cur, retries, prepped, url, httpVars, tmVars,
                   reqObsVars, result, calls, wire, grant>>
    /\ UNCHANGED unitVars

RefreshRejected ==
    /\ pc = "refresh_wait"
    /\ \E status \in {st \in TokenStatuses : ~Accepted(st)} :
         IF OnRejected(force) = "False"
         THEN \* return False: a forced refresh is the one of __init__, which
              \* goes on with _login_device_flow; request() ignores the value
              /\ pc' = IF force THEN "login" ELSE "prepare"
              /\ lastRefresh' = [forced |-> force, status |-> status,
                                 returned |-> "False"]
              /\ UNCHANGED <<op, outcome, ret>>
         ELSE /\ Raise(Raised("TadoWrongCredentialsException", "_refresh_token"))
              /\ ret' = IF force THEN ret
                        ELSE Raised("TadoWrongCredentialsException", "_refresh_token")
              /\ lastRefresh' = [forced |-> force, status |-> status,
                                 returned |-> "raised"]
    /\ UNCHANGED <<clockVars, phase, force, cur, retries, prepped, url, httpVars, tmVars,
                   reqObsVars, result, calls, wire, grant>>
    /\ UNCHANGED unitVars

RefreshAccepted ==
    /\ pc = "refresh_wait"
    /\ \E data \in TokenPayloads : SetOAuthHeader(data)
    /\ \E status \in {st \in TokenStatuses : Accepted(st)} :
         lastRefresh' = [forced |-> force, status |-> status, returned |-> "True"]
    \* forced: __init__ goes on with _device_ready; else request() goes on
    /\ pc' = AfterRefresh(force)
    /\ UNCHANGED <<clockVars, op, phase, force, cur, retries, prepped, url, codeVars,
                   device_activation_status, id, x_api, tm_token_refresh,
                   tm_refresh_at, reqObsVars, ret, result, calls, wire, outcome>>
    /\ UNCHANGED unitVars

(* ------------------------------------------------------------------ *)
(* _login_device_flow, lines 438-480                                    *)
(* ------------------------------------------------------------------ *)
LoginDeviceFlow ==
    /\ pc = "login"
    /\ LET pending == HasPendingDeviceData(sync_file, now)
       IN  CASE pending = "KeyError" ->
                  /\ Raise(Raised("KeyError", "expires_at"))
                  /\ UNCHANGED <<codeVars, device_activation_status, sync_file,
                                 wire, calls>>
             [] pending = "True" ->
                  /\ SetDeviceAuthData(LoadPendingDeviceData(sync_file))
                  /\ UNCHANGED <<wire, calls>>
             [] pending = "False" ->
                  IF device_activation_status # NOT_STARTED
                  THEN /\ Raise(Raised("TadoException", "started already"))
                       /\ UNCHANGED <<codeVars, device_activation_status, sync_file,
                                      wire, calls>>
                  ELSE /\ pc' = "authorize_wait"
                       /\ wire' = Wire("device_authorize", None)
                       /\ calls' = calls \cup {"device_authorize"}
                       /\ UNCHANGED <<op, outcome, codeVars, device_activation_status,
                                      sync_file>>
    /\ UNCHANGED <<clockVars, phase, force, cur, retries, prepped, url, refresh_at, headers,
                   token_refresh, id, x_api, tm_token_refresh, tm_refresh_at,
                   reqObsVars, ret, result, lastRefresh, grant>>
    /\ UNCHANGED unitVars

\* the session raises, or raise_for_status does
AuthorizeFailed ==
    /\ pc = "authorize_wait"
    /\ \E e \in {"ConnectionError", "HTTPError"} : Raise(Raised("TadoException", e))
    /\ UNCHANGED <<clockVars, phase, force, cur, retries, prepped, url, httpVars, tmVars,
                   reqObsVars, ret, result, calls, wire, lastRefresh, grant>>
    /\ UNCHANGED unitVars

AuthorizeAnswered ==
    /\ pc = "authorize_wait"
    /\ SetDeviceAuthData(DevicePayload)
    /\ UNCHANGED <<clockVars, phase, force, cur, retries, prepped, url, refresh_at, headers,
                   token_refresh, id, x_api, tm_token_refresh, tm_refresh_at,
                   reqObsVars, ret, result, calls, wire, lastRefresh, grant>>
    /\ UNCHANGED unitVars

(* ------------------------------------------------------------------ *)
(* _device_ready, lines 563-569, starts with _get_id                    *)
(* ------------------------------------------------------------------ *)
DeviceReady ==
    /\ pc = "ready"
    /\ phase' = "get_id"
    /\ cur' = GetIdRequest
    /\ pc' = "req"
    /\ UNCHANGED <<clockVars, op, force, retries, prepped, url, httpVars, tmVars, obsVars>>
    /\ UNCHANGED unitVars

(* ------------------------------------------------------------------ *)
(* request(), line 279: self._refresh_token()                           *)
(* ------------------------------------------------------------------ *)
RequestEntry ==
    /\ pc = "req"
    /\ sends' = 0 /\ connErrors' = 0 /\ recreated' = 0
    /\ lastResp' = NoResponse
    /\ ret' = Running
    /\ dueAtStart' = (now > refresh_at)
    /\ IF NotDue(refresh_at, now, FALSE)
       THEN /\ pc' = "prepare"
            /\ tokenCalls' = 0
            /\ UNCHANGED <<force, wire, calls, tmVars>>
       ELSE \* refresh_token or self._token_manager.load_token()
            /\ pc' = "refresh_wait"
            /\ force' = FALSE
            /\ tokenCalls' = 1
            /\ tm_token_refresh' = LoadToken(sync_file, tm_token_refresh)
            /\ tm_refresh_at' = TmRefreshAt(sync_file, tm_refresh_at, now)
            /\ wire' = Wire("refresh_token", GrantToken(None, tm_token_refresh'))
            /\ calls' = calls \cup {"refresh_token"}
            /\ UNCHANGED sync_file
    /\ UNCHANGED <<clockVars, op, phase, cur, retries, prepped, url, httpVars,
                   result, lastRefresh, grant, outcome>>
    /\ UNCHANGED unitVars

(* ------------------------------------------------------------------ *)
(* request(), lines 281-295: the request is prepared and sent           *)
(* ------------------------------------------------------------------ *)
\* quote_plus, on the keys and values the model uses
QuotePlus(v) == IF v = "a b" THEN "a+b" ELSE v

\* urlencode(params)
RECURSIVE UrlEncode(_)
UrlEncode(items) ==
    IF items = <<>> THEN ""
    ELSE QuotePlus(items[1][1]) \o "=" \o QuotePlus(items[1][2])
         \o (IF Len(items) > 1 THEN "&" \o UrlEncode(Tail(items)) ELSE "")

\* faulty variant: the ME branch is lost, "me" is treated as home-scoped
UrlPathNoMe(request, home_id) ==
    IF request.endpoint = MOBILE
    THEN request.endpoint \o request.command
    ELSE IF request.domain = DEVICES \/ request.domain = HOME_BY_BRIDGE
    THEN request.endpoint \o request.domain \o "/" \o request.device
         \o "/" \o request.command
    ELSE request.endpoint \o request.domain \o "/" \o ToString(home_id)
         \o "/" \o request.command

\* _configure_url, lines 320-331: the URL before the query string
UrlPath(request, home_id) ==
    IF request.endpoint = MOBILE
    THEN request.endpoint \o request.command
    ELSE IF request.domain = DEVICES \/ request.domain = HOME_BY_BRIDGE
    THEN request.endpoint \o request.domain \o "/" \o request.device
         \o "/" \o request.command
    ELSE IF request.domain = ME
    THEN request.endpoint \o request.domain
    ELSE request.endpoint \o request.domain \o "/" \o ToString(home_id)
         \o "/" \o request.command

\* _configure_url
ConfigureUrl(request, home_id) ==
    UrlPath(request, home_id)
    \o (IF request.params.none THEN "" ELSE "?" \o UrlEncode(request.params.items))

\* faulty variant: the method is remapped by the session's generation
MethodBySession(request) ==
    IF request.action = CHANGE
    THEN (IF x_api = "True" THEN "PATCH" ELSE CHANGE)
    ELSE request.action

\* request, line 286: method=request.action
Method(request) == ActionOf(request)

\* _configure_url formats self._id with :d for a home-scoped request
UrlFails(request) ==
    /\ request.endpoint # MOBILE
    /\ request.domain \notin {DEVICES, HOME_BY_BRIDGE, ME}
    /\ id = NoneInt

Prepare ==
    /\ pc = "prepare"
    /\ headers' = ConfigurePayload(headers, cur)
    /\ IF UrlFails(cur)
       THEN /\ Raise(Raised("TypeError", "_id"))
            /\ ret' = Raised("TypeError", "_id")
            /\ UNCHANGED <<prepped, url, retries, sends, wire, calls>>
       ELSE /\ prepped' = headers'
            /\ url' = ConfigureUrl(cur, id)
            /\ retries' = DEFAULT_RETRIES
            /\ sends' = 1
            /\ wire' = [Wire("resource", Method(cur)) EXCEPT
                          !.auth = Get(headers', "Authorization")]
            /\ calls' = calls \cup {"resource"}
            /\ pc' = "send"
            /\ UNCHANGED <<op, outcome, ret>>
    /\ UNCHANGED <<clockVars, phase, force, cur, refresh_at, token_refresh, codeVars,
                   device_activation_status, id, x_api, tmVars, connErrors, recreated,
                   tokenCalls, dueAtStart, lastResp, result, lastRefresh, grant>>
    /\ UNCHANGED unitVars

(* ------------------------------------------------------------------ *)
(* request(), lines 293-312: the retry loop                             *)
(* ------------------------------------------------------------------ *)
\* self._session.send raises e
SendRaises(e) ==
    /\ pc = "send"
    /\ connErrors' = IF e = "ConnectionError" THEN connErrors + 1 ELSE connErrors
    /\ LET exc == IF e = "ConnectionError"
                  THEN Raised("TadoException", "ConnectionError in send")
                  ELSE Raised(e, "send")
       IN  IF Handler(e) = "retry" /\ MayRetry(retries)
           THEN \* close the session, create a new one, go round the loop
                /\ recreated' = Recreate(recreated)
                /\ retries' = retries - 1
                /\ IF LoopContinues(retries')
                   THEN /\ sends' = sends + 1
                        /\ UNCHANGED <<pc, op, outcome, ret>>
                   ELSE \* the loop ends with response unbound
                        /\ Raise(Raised("UnboundLocalError", "response"))
                        /\ ret' = Raised("UnboundLocalError", "response")
                        /\ UNCHANGED sends
           ELSE /\ Raise(exc)
                /\ ret' = exc
                /\ UNCHANGED <<recreated, retries, sends>>
    /\ UNCHANGED <<clockVars, phase, force, cur, prepped, url, httpVars, tmVars,
                   tokenCalls, dueAtStart, lastResp, result, calls, wire, lastRefresh,
                   grant>>
    /\ UNCHANGED unitVars

SendConnectionError == SendRaises("ConnectionError")

SendCredentialsError == SendRaises("TadoWrongCredentialsException")

\* an exception neither except clause names, such as a read timeout
SendOtherError == SendRaises("ReadTimeout")

\* self._session.send returns a response; request() returns, and its
\* caller (_get_id, _check_x_line_generation or the user) goes on
SendResponse ==
    /\ pc = "send"
    /\ \E response \in Responses :
         /\ lastResp' = response
         /\ IF response.text # "" /\ ~IsJson(response.text)
            THEN /\ Raise(Raised("JSONDecodeError", "json"))
                 /\ ret' = Raised("JSONDecodeError", "json")
                 /\ UNCHANGED <<phase, cur, result, id, x_api, user_code,
                                device_verification_url, device_activation_status>>
            ELSE /\ ret' = Ok
                 /\ result' = Returned(response)
                 /\ CASE phase = "none" ->
                           /\ pc' = "done" /\ op' = op /\ outcome' = Ok
                           /\ UNCHANGED <<phase, cur, id, x_api, user_code,
                                          device_verification_url,
                                          device_activation_status>>
                      [] phase = "get_id" ->
                           \* self.request(request)["homes"][0]["id"]
                           IF "homes" \notin DOMAIN result'
                           THEN /\ Raise(Raised("KeyError", "homes"))
                                /\ UNCHANGED <<phase, cur, id, x_api, user_code,
                                               device_verification_url,
                                               device_activation_status>>
                           ELSE /\ id' = result'["homes"][1]["id"]
                                /\ phase' = "x_line"
                                /\ cur' = HomeInfoRequest
                                /\ pc' = "req"
                                /\ UNCHANGED <<op, outcome, x_api, user_code,
                                               device_verification_url,
                                               device_activation_status>>
                      [] phase = "x_line" ->
                           /\ x_api' = IsXLine(result')
                           /\ user_code' = None
                           /\ device_verification_url' = None
                           /\ device_activation_status' = COMPLETED
                           /\ phase' = "none"
                           /\ pc' = "done" /\ op' = op /\ outcome' = Ok
                           /\ UNCHANGED <<cur, id>>
    /\ UNCHANGED <<clockVars, force, retries, prepped, url, refresh_at, headers,
                   token_refresh, device_code, check_interval, expires_at, tmVars,
                   loopVars, tokenCalls, dueAtStart, calls, wire, lastRefresh, grant>>
    /\ UNCHANGED unitVars

(* ------------------------------------------------------------------ *)
(* The caller                                                           *)
(* ------------------------------------------------------------------ *)
\* Http.request(request)
Request ==
    /\ pc = "idle"
    /\ \E request \in CallerRequests : cur' = request
    /\ op' = "request"
    /\ phase' = "none"
    /\ pc' = "req"
    /\ calls' = {}
    /\ outcome' = Running
    /\ UNCHANGED <<clockVars, force, retries, prepped, url, httpVars, tmVars, reqObsVars,
                   ret, result, wire, lastRefresh, grant>>
    /\ UNCHANGED unitVars

\* Http.device_activation(), lines 551-561, on a constructed instance:
\* _check_device_activation returns True at once, _device_ready runs again
DeviceActivation ==
    /\ pc = "idle"
    /\ device_activation_status = COMPLETED
    /\ op' = "activation"
    /\ pc' = "ready"
    /\ calls' = {}
    /\ outcome' = Running
    /\ UNCHANGED <<clockVars, phase, force, cur, retries, prepped, url, httpVars, tmVars,
                   reqObsVars, ret, result, wire, lastRefresh, grant>>
    /\ UNCHANGED unitVars

\* the call is over: the caller has its result or its exception, and the
\* observations of the call end
Return ==
    /\ pc = "done"
    /\ pc' = "idle"
    /\ op' = "none"
    /\ sends' = 0 /\ connErrors' = 0 /\ recreated' = 0 /\ tokenCalls' = 0
    /\ dueAtStart' = FALSE
    /\ lastResp' = NoResponse
    /\ ret' = NoRet
    /\ result' = EmptyDict
    /\ calls' = {}
    /\ wire' = NoWire
    /\ lastRefresh' = NoRefresh
    /\ outcome' = NoRet
    /\ UNCHANGED <<clockVars, phase, force, cur, retries, prepped, url, httpVars, tmVars,
                   grant>>
    /\ UNCHANGED unitVars

\* another process that shares the sync file has refreshed and saved the
\* token it was given
RotatedToken == "r9"

OtherProcessRefreshes ==
    /\ pc = "idle"
    /\ OAUTH_DATA_KEY \in DOMAIN LoadSyncFile(sync_file)
    /\ sync_file # SaveToken(RotatedToken)
    /\ sync_file' = SaveToken(RotatedToken)
    /\ UNCHANGED <<clockVars, ctlVars, httpVars, tm_token_refresh, tm_refresh_at,
                   obsVars>>
    /\ UNCHANGED unitVars

\* time passes between two calls
Tick ==
    /\ pc = "idle"
    /\ ticks < MaxTicks
    /\ \E d \in TickSteps : now' = now + d
    /\ ticks' = ticks + 1
    /\ UNCHANGED <<ctlVars, httpVars, tmVars, obsVars>>
    /\ UNCHANGED unitVars

Next ==
    \/ Construct
    \/ RefreshTransportError
    \/ RefreshRejected
    \/ RefreshAccepted
    \/ LoginDeviceFlow
    \/ AuthorizeFailed
    \/ AuthorizeAnswered
    \/ DeviceReady
    \/ RequestEntry
    \/ Prepare
    \/ SendConnectionError
    \/ SendCredentialsError
    \/ SendOtherError
    \/ SendResponse
    \/ Request
    \/ DeviceActivation
    \/ Return
    \/ OtherProcessRefreshes
    \/ Tick

Spec == Init /\ [][Next]_vars

(* ================================================================== *)
(* Properties                                                           *)
(* ================================================================== *)
ConnectionExhausted == Raised("TadoException", "ConnectionError in send")
CredentialsFromSend == Raised("TadoWrongCredentialsException", "send")
CredentialsFromRefresh == Raised("TadoWrongCredentialsException", "_refresh_token")

\* C1: when every send of a request raises a connection error, request()
\* makes exactly 6 attempts (1 + 5 retries) and then raises TadoException
\* wrapping the connection error; there is never a 7th attempt, and no body
\* is returned.
C1_SixAttemptsThenTadoException ==
    /\ sends <= 6
    /\ (sends >= 1 /\ connErrors = sends) =>
          /\ sends = 6
          /\ ret = ConnectionExhausted
          /\ pc \in {"done", "dead"}
          /\ outcome = ConnectionExhausted
    /\ ret = ConnectionExhausted => (sends = 6 /\ connErrors = 6)

C1_Witness ==
    /\ op = "request" /\ pc = "done"
    /\ sends = 6 /\ connErrors = 6
    /\ ret = ConnectionExhausted

\* C2: for every k in 0..5, when the first k sends raise a connection error
\* and send k+1 gets a response, request() returns the decoded body of that
\* response, and the retry loop has closed and recreated the session exactly
\* k times, once after each failed attempt and before the next one.
C2_ReturnsBodyAfterKRecreations ==
    /\ pc = "send" => (recreated = connErrors /\ sends = connErrors + 1)
    /\ ret = Ok =>
          /\ connErrors \in 0..5
          /\ sends = connErrors + 1
          /\ recreated = connErrors
          /\ lastResp # NoResponse
          /\ result = IF lastResp.text = "" THEN EmptyDict ELSE json(lastResp.text)

C2_Witness ==
    /\ op = "request" /\ pc = "done" /\ ret = Ok
    /\ connErrors = 4 /\ recreated = 4 /\ sends = 5
    /\ result = json(ErrorText)

\* C3: request() retries only on connection errors: once a send has yielded
\* a response, whatever its status, no further send of that request is made
\* and the session is not recreated; a credentials exception raised by a
\* send is re-raised at once, without a retry.
C3_RetryOnlyOnConnectionError ==
    /\ (lastResp # NoResponse \/ ret = CredentialsFromSend \/ ret.why = "send") =>
          /\ pc # "send"
          /\ sends = connErrors + 1
          /\ recreated = connErrors
    /\ ret = CredentialsFromSend =>
          (outcome = CredentialsFromSend /\ pc \in {"done", "dead"})

C3_Witness ==
    /\ op = "request" /\ pc = "done"
    /\ lastResp.status = 404
    /\ sends = 1 /\ recreated = 0

\* C4 (the claim as stated): a non-2xx response of the resource API makes
\* the caller's request() fail, and its body is never returned to the caller
\* as a result.
C4_NonOkStatusRaises ==
    (op = "request" /\ lastResp # NoResponse /\ lastResp.status \notin 200..299) =>
        (ret # Ok /\ outcome # Ok)

\* C5 (the claim as stated): a resource request is sent only when
\* device_activation_status is COMPLETED with an access token installed.
C5_ResourceRequestOnlyWhenCompleted ==
    wire.kind = "resource" =>
        (wire.status = COMPLETED /\ wire.auth # None)

C8_RejectedRefresh ==
    lastRefresh.status \notin {0, 200} =>
        /\ lastRefresh.forced => lastRefresh.returned = "False"
        /\ ~lastRefresh.forced =>
              /\ lastRefresh.returned = "raised"
              /\ ret = CredentialsFromRefresh
              /\ outcome = CredentialsFromRefresh
              /\ pc \in {"done", "dead"}
              /\ sends = 0

C8_Witness ==
    /\ op = "request" /\ pc = "done"
    /\ lastRefresh = [forced |-> FALSE, status |-> 400, returned |-> "raised"]
    /\ outcome = CredentialsFromRefresh

\* C9: constructing Http on a store whose saved refresh token the token
\* endpoint accepts ends COMPLETED, and no device_authorize request and no
\* device_code-grant request is sent during the construction.
C9_SilentRefreshSkipsDeviceFlow ==
    (op = "init" /\ grant.installed) =>
        /\ calls \cap {"device_authorize", "device_code"} = {}
        /\ pc \notin {"login", "authorize_wait"}
        /\ pc = "done" => (device_activation_status = COMPLETED /\ outcome = Ok)

C9_Witness ==
    /\ op = "init" /\ pc = "done" /\ grant.installed
    /\ device_activation_status = COMPLETED
    /\ calls = {"refresh_token", "resource"}

\* C10 (the claim as stated): constructing Http when the store holds no
\* refresh token, or when the refresh of the saved token does not succeed,
\* starts the device flow and ends PENDING.  Stated for the constructions
\* whose device_authorize call went out and did not fail: such a
\* construction returns an instance with device_activation_status = PENDING.
C10_NoTokenEndsPending ==
    (/\ op = "init" /\ pc \in {"done", "dead"}
     /\ ~grant.installed
     /\ "device_authorize" \in calls
     /\ outcome.kind # "TadoException") =>
        (pc = "done" /\ device_activation_status = PENDING)

\* the state PENDING is never reached: _set_device_auth_data raises first
NeverPending == device_activation_status # PENDING

\* the construction has started or resumed a device flow: _set_device_auth_data
\* has taken the device code from the payload it was handed
FlowBegun == op = "init" /\ pc \in {"done", "dead"} /\ device_code # None

\* C11 (the claim as stated): on a fresh store, a start that gets a
\* successful device_authorize response leaves the session PENDING and
\* exposes the returned user_code and the verification URL
\* verification_uri + "?user_code=" + user_code.
C11_StartExposesUserCode ==
    (FlowBegun /\ "device_authorize" \in calls) =>
        /\ pc = "done"
        /\ device_activation_status = PENDING
        /\ user_code = DevicePayload.user_code
        /\ device_verification_url =
             VisitUrl(DevicePayload.verification_uri, DevicePayload.user_code)

\* C12 (the claim as stated, from the start of its scenario): the flow
\* started on a store without a saved token is completed by
\* device_activation, whose poll gets the token payload.  That needs the
\* construction to return with the device code and the poll interval of the
\* device_authorize answer.
C12_StartedFlowCanBeCompleted ==
    (FlowBegun /\ "device_authorize" \in calls /\ "refresh_token" \notin calls) =>
        /\ outcome = Ok
        /\ device_code = DevicePayload.device_code
        /\ check_interval = DevicePayload.interval

\* C13 (the claim as stated): when the store holds a non-expired pending
\* device authorization, the start resumes it: device code, user code and
\* interval are those of the stored record, and no device_authorize request
\* is sent.
C13_ResumesStoredPending ==
    (/\ op = "init" /\ pc \in {"done", "dead"}
     /\ calls = {}
     /\ PENDING_DEVICE_KEY \in DOMAIN LoadSyncFile(sync_file)
     /\ HasPendingDeviceData(sync_file, now) # "False") =>
        LET stored == LoadPendingDeviceData(sync_file)
        IN  /\ pc = "done"
            /\ device_activation_status = PENDING
            /\ "device_authorize" \notin calls
            /\ device_code = stored.device_code
            /\ user_code = stored.user_code
            /\ check_interval = stored.interval

\* C14 (the claim as stated, at the point where the authorization becomes
\* pending): a poll made after the pending authorization's expiry fails with
\* the expiry error before any HTTP request, for started and resumed
\* authorizations alike.  The poll tests self._expires_at, so every started
\* or resumed authorization has its expiry recorded there.
C14_ExpiryRecordedForEveryAuthorization ==
    FlowBegun => (pc = "done" /\ expires_at # None)

\* C15 (the claim as stated, on the input of test_login_failed): with a
\* saved token that the token endpoint rejects with 400, the device flow is
\* started and its poll, answered 400 with an error other than
\* authorization_pending, raises TadoException: the caller sees no other
\* exception.
C15_OtherReplyRaisesTadoException ==
    (/\ op = "init" /\ pc \in {"done", "dead"}
     /\ lastRefresh.forced /\ lastRefresh.status = 400) =>
        outcome.kind \in {"ok", "TadoException"}

\* C16 (the claim as stated, for the authorization a failed poll leaves
\* behind): the pending authorization stays intact, on the instance (PENDING
\* status, device code) and in the store (a pending record that a later
\* start can read), so that a later device_activation call polls again with
\* the same device code.
C16_PendingAuthorizationIntact ==
    (FlowBegun /\ "device_authorize" \in calls) =>
        /\ device_activation_status = PENDING
        /\ HasPendingDeviceData(sync_file, now) = "True"
        /\ LoadPendingDeviceData(sync_file).device_code = device_code

C18_FailedRefreshLeavesAuthenticated ==
    (/\ op = "request" /\ pc = "done"
     /\ ~lastRefresh.forced /\ lastRefresh.status \notin {0, 200}
     /\ lastRefresh.returned = "raised") =>
        device_activation_status # COMPLETED

\* C19 (the claim as stated): the home id and the dialect are resolved once
\* per instance: the "who am I" request of _get_id is sent only while the
\* home id is unresolved, the "get home info" request of
\* _check_x_line_generation only while is_x_line is unresolved.
C19_ResolvedExactlyOnce ==
    /\ (pc = "send" /\ phase = "get_id") => id = NoneInt
    /\ (pc = "send" /\ phase = "x_line") => x_api = None

\* C20 (the claim as stated): once resolved, the home id and is_x_line never
\* change, whatever calls follow and whatever the server answers.
C20_ResolvedNeverChanges ==
    [][/\ id # NoneInt => id' = id
       /\ x_api # None => x_api' = x_api]_vars

(* ------------------------------------------------------------------ *)
(* Persisted state and dialect                                          *)
(* ------------------------------------------------------------------ *)
AccessTokens == { p.access_token : p \in TokenPayloads }

\* C21: whatever the token manager has persisted holds the refresh token
\* and the pending device data only; no document in the sync file carries
\* an access_token entry or the access token of a token response.
C21_AccessTokenNeverPersisted ==
    LET doc == sync_file.data
    IN  /\ DOMAIN doc \subseteq {OAUTH_DATA_KEY, PENDING_DEVICE_KEY}
        /\ OAUTH_DATA_KEY \in DOMAIN doc =>
             /\ DOMAIN doc[OAUTH_DATA_KEY] = {"refresh_token"}
             /\ doc[OAUTH_DATA_KEY]["refresh_token"] \notin AccessTokens
        /\ PENDING_DEVICE_KEY \in DOMAIN doc =>
             "access_token" \notin DOMAIN doc[PENDING_DEVICE_KEY]

\* a token response has been installed and its refresh token persisted
C21_Witness ==
    /\ grant.installed
    /\ lastRefresh.status = 200
    /\ headers["Authorization"] \in { Bearer(a) : a \in AccessTokens }
    /\ sync_file = SaveToken(token_refresh)
    /\ token_refresh \in { p.refresh_token : p \in TokenPayloads }

\* a caller's descriptor with verb PUT has been sent
PutSent ==
    /\ op = "request"
    /\ wire.kind = "resource"
    /\ cur.action = CHANGE

HomeInfoAnswered ==
    /\ pc = "done"
    /\ cur = HomeInfoRequest
    /\ outcome = Ok

\* C25: once the session is ready, is_x_line is true exactly when the
\* home-info response, the answer to GET homes/{home_id}/ on the legacy
\* service root, says generation = LINE_X, and false otherwise; until the
\* session is ready is_x_line is None.
C25_XLineFromHomeInfo ==
    /\ HomeInfoAnswered =>
         /\ wire.arg = "GET"
         /\ url = "https://my.tado.com/api/v2/homes/" \o ToString(id) \o "/"
         /\ device_activation_status = COMPLETED
         /\ x_api = (IF lastResp.text = HomeTextX THEN "True" ELSE "False")
    /\ device_activation_status # COMPLETED => x_api = None
    /\ device_activation_status = COMPLETED => x_api \in {"True", "False"}

\* a home-info response of an older generation made the session ready
C25_Witness ==
    /\ HomeInfoAnswered
    /\ lastResp.text = HomeTextPre
    /\ x_api = "False"

\* a LINE_X home-info response made the session ready
C25_WitnessX ==
    /\ HomeInfoAnswered
    /\ lastResp.text = HomeTextX
    /\ x_api = "True"

(* ================================================================== *)
(* Request descriptors and _configure_url on their own                  *)
(* ================================================================== *)
\* the fields of Http and of the observations while no call is running
CtlAtRest ==
    /\ op = "none" /\ phase = "none" /\ force = FALSE
    /\ retries = DEFAULT_RETRIES /\ prepped = EmptyDict

HttpAtRest ==
    /\ refresh_at = InitialRefreshDelay
    /\ headers = [Referer |-> "https://app.tado.com/"]
    /\ token_refresh = None
    /\ user_code = None /\ device_code = None /\ device_verification_url = None
    /\ device_activation_status = NOT_STARTED
    /\ check_interval = DefaultCheckInterval
    /\ expires_at = None
    /\ x_api = None

ObsAtRest ==
    /\ sends = 0 /\ connErrors = 0 /\ recreated = 0 /\ tokenCalls = 0
    /\ dueAtStart = FALSE /\ lastResp = NoResponse /\ ret = NoRet
    /\ result = EmptyDict /\ calls = {} /\ wire = NoWire
    /\ lastRefresh = NoRefresh /\ grant = NoGrant /\ outcome = NoRet

\* the values the descriptors are built from
Endpoints == {MY_API, HOPS_API, MOBILE}
Domains == {HOME, DEVICES, ME, HOME_BY_BRIDGE}
Verbs == {GET, SET, RESET, CHANGE}
Commands == {None, "test", ""}
Devices == {None, "id1234"}
ParamSets ==
    { NoParams,
      Params(<<>>),
      Params(<< <<"test", "value">> >>),
      Params(<< <<"from", "a b">>, <<"x", "1">> >>) }
HomeIds == {NoneInt, 123}

\* a descriptor of either class has been constructed from any arguments
DescInit ==
    /\ now = 0 /\ ticks = 0
    /\ pc = "unit" /\ CtlAtRest /\ HttpAtRest /\ ObsAtRest
    /\ \E class \in {"TadoRequest", "TadoXRequest"}, e \in Endpoints,
          c \in Commands, a \in Verbs, d \in Domains, v \in Devices,
          q \in ParamSets :
         /\ cur = NewRequest(class, e, c, a, None, d, v, OBJECT, q)
         /\ given = [verb |-> a, by |-> "constructor"]
    /\ seen = None
    /\ url = None
    /\ id \in HomeIds
    /\ sync_file = MissingFile
    /\ tm_token_refresh = None
    /\ tm_refresh_at = now - InitialRefreshDelay
    /\ tm_ret = NoCall /\ lock = LOCK_UN /\ section = NoSection
    /\ procs = <<>> /\ issued = 0 /\ committed = EmptyDict

DescFrame ==
    UNCHANGED <<clockVars, pc, op, phase, force, retries, prepped, httpVars,
                tmVars, obsVars, storeVars, multiVars>>

\* request.action = value
AssignAction ==
    /\ pc = "unit"
    /\ \E value \in Verbs :
         /\ value # given.verb
         /\ cur' = SetAction(cur, value)
         /\ given' = [verb |-> value, by |-> "setter"]
    /\ seen' = None
    /\ UNCHANGED url
    /\ DescFrame

\* reading request.action
ReadAction ==
    /\ pc = "unit"
    /\ seen = None
    /\ seen' = ActionOf(cur)
    /\ UNCHANGED <<cur, given, url>>
    /\ DescFrame

\* http._configure_url(request)
ConfigureUrlCall ==
    /\ pc = "unit"
    /\ url = None
    /\ url' = IF UrlFails(cur) THEN "TypeError" ELSE ConfigureUrl(cur, id)
    /\ UNCHANGED <<cur, given, seen>>
    /\ DescFrame

DescNext ==
    \/ AssignAction
    \/ ReadAction
    \/ ConfigureUrlCall

DescriptorSpec == DescInit /\ [][DescNext]_vars

\* C23: reading the action of a TadoXRequest gives PATCH exactly when the
\* action set on it, by the constructor or by a later assignment, is PUT,
\* and gives the set action unchanged for every other verb; reading the
\* action of a TadoRequest always gives the set action unchanged.
C23_ActionProperty ==
    seen # None =>
      /\ cur.class = "TadoXRequest" =>
           /\ seen = "PATCH" <=> given.verb = "PUT"
           /\ given.verb # "PUT" => seen = given.verb
      /\ cur.class = "TadoRequest" => seen = given.verb

\* PUT was assigned to a TadoXRequest built with another verb, and read back
C23_Witness ==
    /\ cur.class = "TadoXRequest"
    /\ given = [verb |-> "PUT", by |-> "setter"]
    /\ seen = "PATCH"

\* the query string urlencode gives for each set of params
ExpectedQuery(params) ==
    CASE params = NoParams -> ""
      [] params = Params(<<>>) -> "?"
      [] params = Params(<< <<"test", "value">> >>) -> "?test=value"
      [] params = Params(<< <<"from", "a b">>, <<"x", "1">> >>) -> "?from=a+b&x=1"

\* C24: _configure_url builds endpoint + command for the MOBILE endpoint
\* whatever the domain; otherwise endpoint + domain/device/command for
\* DEVICES and HOME_BY_BRIDGE, endpoint + domain alone for ME, and
\* endpoint + domain/home_id/command for HOME; and it appends "?" and the
\* url-encoded params exactly when params is not None.
C24_ConfigureUrl ==
    (pc = "unit" /\ url \notin {None, "TypeError"}) =>
      LET path ==
            CASE cur.endpoint = MOBILE -> cur.endpoint \o cur.command
              [] cur.endpoint # MOBILE /\ cur.domain \in {DEVICES, HOME_BY_BRIDGE} ->
                   cur.endpoint \o cur.domain \o "/" \o cur.device \o "/" \o cur.command
              [] cur.endpoint # MOBILE /\ cur.domain = ME ->
                   cur.endpoint \o "me"
              [] cur.endpoint # MOBILE /\ cur.domain = HOME ->
                   cur.endpoint \o "homes/" \o ToString(id) \o "/" \o cur.command
      IN  url = path \o ExpectedQuery(cur.params)

\* the URL of a home-scoped descriptor with params, as the tests expect it
C24_Witness ==
    /\ pc = "unit"
    /\ cur.domain = HOME /\ cur.command = "test"
    /\ cur.params = Params(<< <<"test", "value">> >>)
    /\ url = "https://my.tado.com/api/v2/homes/123/test?test=value"

(* ================================================================== *)
(* DeviceTokenManager on its own: one process, one sync file            *)
(* ================================================================== *)
\* faulty variant: the lock is kept when the body of the block raised
ExitKeepsOnRaise(held, raised) == IF raised THEN held ELSE LOCK_UN

\* FileLock.__exit__: flock(self.file, LOCK_UN), whatever the block did
Exit(held, raised) == LOCK_UN

\* open(path, "w"): the file exists and is empty, which reads as {}
Truncated == [exists |-> TRUE, data |-> EmptyDict]

\* load_pending_device_data, line 112: not data or PENDING_DEVICE_KEY not in data
PendingMissing(f) ==
    ~NonEmpty(LoadSyncFile(f)) \/ PENDING_DEVICE_KEY \notin DOMAIN LoadSyncFile(f)

\* the abstract methods of TokenManagerInterface and what the subclasses define
AbstractMethods == {"load_token"}
FileTokenManagerMethods ==
    {"__init__", "set_oauth_data", "_save_oauth_data", "get_token", "_load_oauth_data"}

\* a class deriving from ABC is instantiable when it overrides every abstract method
Instantiable(methods) == AbstractMethods \subseteq methods

\* what the callers hand to the manager
OAuthInputs ==
    { [refresh_token |-> "r1"],
      [refresh_token |-> "r2", expires_in |-> 31] }
PendingInputs == {EmptyDict, DevicePayload, StoredPending(1), StoredPending(100)}

SaveOps == {"save_oauth_data", "save_pending_device_data"}
LoadOps == {"has_pending_device_data", "load_pending_device_data", "load_token"}

StoreInit ==
    /\ now = 0 /\ ticks = 0
    /\ pc = "store" /\ CtlAtRest /\ HttpAtRest /\ ObsAtRest
    /\ cur = GetIdRequest /\ url = None /\ id = NoneInt
    /\ given = NotGiven /\ seen = None
    /\ sync_file \in InitialFiles
    /\ tm_token_refresh = None
    /\ tm_refresh_at = now - InitialRefreshDelay
    /\ tm_ret = NoCall /\ lock = LOCK_UN /\ section = NoSection
    /\ procs = <<>> /\ issued = 0 /\ committed = EmptyDict

StoreFrame ==
    UNCHANGED <<ticks, ctlVars, httpVars, obsVars, descVars, multiVars>>

StoreIdle == pc = "store" /\ section = NoSection

\* a call on the manager ends: what it was, how it ended, and the call before it
Done(op_, arg, kind, value) ==
    tm_ret' = [op |-> op_, arg |-> arg, kind |-> kind, value |-> value, at |-> now,
               prev |-> [op |-> tm_ret.op, arg |-> tm_ret.arg, kind |-> tm_ret.kind,
                         before |-> [op |-> tm_ret.prev.op, arg |-> tm_ret.prev.arg,
                                     kind |-> tm_ret.prev.kind]]]

\* _save_sync_file up to FileLock.__enter__: open(path, "w"), flock(f, LOCK_EX)
EnterSave(op_, arg, file) ==
    /\ sync_file' = Truncated
    /\ lock' = LOCK_EX
    /\ section' = [op |-> op_, arg |-> arg, file |-> file]
    /\ UNCHANGED <<tm_ret, now>>

\* save_oauth_data(oauth_data): _set_oauth_data, then _save_sync_file
SaveOAuthDataCall ==
    /\ StoreIdle
    /\ \E oauth_data \in OAuthInputs :
         /\ tm_token_refresh' = Get(oauth_data, "refresh_token")
         /\ tm_refresh_at' =
              now + (IF "expires_in" \in DOMAIN oauth_data
                     THEN oauth_data["expires_in"] ELSE 0) - RefreshMargin
         /\ EnterSave("save_oauth_data", oauth_data,
                      SaveSyncFile(OAuthDocument(LoadSyncFile(sync_file), oauth_data)))
    /\ StoreFrame

\* save_pending_device_data(device_data)
SavePendingCall ==
    /\ StoreIdle
    /\ \E device_data \in PendingInputs :
         EnterSave("save_pending_device_data", device_data,
                   SavePendingDeviceData(device_data))
    /\ UNCHANGED <<tm_token_refresh, tm_refresh_at>>
    /\ StoreFrame

\* the body of the with-block of _save_sync_file, json_dump, which can
\* raise, and FileLock.__exit__
SaveLeave ==
    /\ pc = "store"
    /\ section.op \in SaveOps
    /\ \E raised \in BOOLEAN :
         /\ sync_file' = IF raised THEN sync_file ELSE section.file
         /\ lock' = Exit(lock, raised)
         /\ Done(section.op, section.arg, IF raised THEN "raise" ELSE "none",
                 IF raised THEN "OSError" ELSE None)
    /\ section' = NoSection
    /\ UNCHANGED <<now, tm_token_refresh, tm_refresh_at>>
    /\ StoreFrame

\* what a reading call computes from the document _load_sync_file returned
Finish(op_) ==
    CASE op_ = "has_pending_device_data" ->
           LET v == HasPendingDeviceData(sync_file, now)
           IN  /\ Done(op_, EmptyDict, IF v = "KeyError" THEN "raise" ELSE "bool", v)
               /\ UNCHANGED <<tm_token_refresh, tm_refresh_at>>
      [] op_ = "load_pending_device_data" ->
           /\ IF PendingMissing(sync_file)
              THEN Done(op_, EmptyDict, "raise", "TadoException")
              ELSE Done(op_, EmptyDict, "dict", LoadPendingDeviceData(sync_file))
           /\ UNCHANGED <<tm_token_refresh, tm_refresh_at>>
      [] op_ = "load_token" ->
           /\ tm_token_refresh' = LoadToken(sync_file, tm_token_refresh)
           /\ tm_refresh_at' = TmRefreshAt(sync_file, tm_refresh_at, now)
           /\ Done(op_, EmptyDict, "str", tm_token_refresh')

\* _load_sync_file up to FileLock.__enter__: {} at once when the file does
\* not exist, else open(path) and flock(f, LOCK_SH)
EnterLoad(op_) ==
    /\ StoreIdle
    /\ IF sync_file.exists
       THEN /\ lock' = LOCK_SH
            /\ section' = [op |-> op_, arg |-> EmptyDict]
            /\ UNCHANGED <<tm_ret, tm_token_refresh, tm_refresh_at>>
       ELSE /\ Finish(op_)
            /\ UNCHANGED <<lock, section>>
    /\ UNCHANGED <<now, sync_file>>
    /\ StoreFrame

HasPendingCall == EnterLoad("has_pending_device_data")
LoadPendingCall == EnterLoad("load_pending_device_data")
LoadTokenCall == EnterLoad("load_token")

\* json_load inside the with-block, FileLock.__exit__, and the rest of the call
LoadLeave ==
    /\ pc = "store"
    /\ section.op \in LoadOps
    /\ lock' = Exit(lock, FALSE)
    /\ section' = NoSection
    /\ Finish(section.op)
    /\ UNCHANGED <<now, sync_file>>
    /\ StoreFrame

\* with lock_device_activation(msg): open(path) raises when there is no file
ActivationEnter ==
    /\ StoreIdle
    /\ IF sync_file.exists
       THEN /\ lock' = LOCK_EX
            /\ section' = [op |-> "lock_device_activation", arg |-> EmptyDict]
            /\ UNCHANGED tm_ret
       ELSE /\ Done("lock_device_activation", EmptyDict, "raise", "FileNotFoundError")
            /\ UNCHANGED <<lock, section>>
    /\ UNCHANGED <<now, tmVars>>
    /\ StoreFrame

\* the body of the block returns or raises; FileLock.__exit__ runs
ActivationLeave ==
    /\ pc = "store"
    /\ section.op = "lock_device_activation"
    /\ \E raised \in BOOLEAN :
         /\ lock' = Exit(lock, raised)
         /\ Done(section.op, EmptyDict, IF raised THEN "raise" ELSE "none",
                 IF raised THEN "Exception" ELSE None)
    /\ section' = NoSection
    /\ UNCHANGED <<now, tmVars>>
    /\ StoreFrame

\* FileTokenManager(token_file_path=...)
NewFileTokenManager ==
    /\ StoreIdle
    /\ tm_ret.op # "FileTokenManager"
    /\ IF Instantiable(FileTokenManagerMethods)
       THEN Done("FileTokenManager", EmptyDict, "none", None)
       ELSE Done("FileTokenManager", EmptyDict, "raise", "TypeError")
    /\ UNCHANGED <<now, tmVars, lock, section>>
    /\ StoreFrame

\* time passes between two calls
StoreTick ==
    /\ StoreIdle
    /\ ticks < MaxTicks
    /\ \E d \in TickSteps : now' = now + d
    /\ ticks' = ticks + 1
    /\ UNCHANGED <<ctlVars, httpVars, tmVars, obsVars, unitVars>>

StoreNext ==
    \/ SaveOAuthDataCall
    \/ SavePendingCall
    \/ SaveLeave
    \/ HasPendingCall
    \/ LoadPendingCall
    \/ LoadTokenCall
    \/ LoadLeave
    \/ ActivationEnter
    \/ ActivationLeave
    \/ NewFileTokenManager
    \/ StoreTick

StoreSpec == StoreInit /\ [][StoreNext]_vars

\* the last call on the manager was op_, and nothing has touched the file since
LastCall(op_) == pc = "store" /\ section = NoSection /\ tm_ret.op = op_

\* C26: has_pending_device_data returns true only if the store holds a
\* pending record whose expires_at is later than the current time; it
\* returns false when the file is missing, when there is no pending record
\* and when the record has expired, and the expired record may stay stored.
C26_HasPendingOnlyIfUnexpired ==
    LastCall("has_pending_device_data") =>
      LET doc == LoadSyncFile(sync_file)
          has == PENDING_DEVICE_KEY \in DOMAIN doc
          dated == has /\ "expires_at" \in DOMAIN doc[PENDING_DEVICE_KEY]
      IN  /\ tm_ret.value = "True" =>
                dated /\ tm_ret.at < doc[PENDING_DEVICE_KEY]["expires_at"]
          /\ ~sync_file.exists => tm_ret.value = "False"
          /\ ~has => tm_ret.value = "False"
          /\ (dated /\ doc[PENDING_DEVICE_KEY]["expires_at"] <= tm_ret.at) =>
                tm_ret.value = "False"

\* an expired record is reported as absent and is still in the file
C26_Witness ==
    /\ LastCall("has_pending_device_data")
    /\ tm_ret.value = "False"
    /\ tm_ret.at = 1
    /\ sync_file = SavePendingDeviceData(StoredPending(1))

\* a record that has not expired is reported
C26_WitnessPending ==
    /\ LastCall("has_pending_device_data")
    /\ tm_ret.value = "True"
    /\ tm_ret.at = 0
    /\ sync_file = SavePendingDeviceData(StoredPending(1))

\* the last call was a load that directly followed a save that returned
LoadAfterSave ==
    /\ LastCall("load_pending_device_data")
    /\ tm_ret.prev.op = "save_pending_device_data"
    /\ tm_ret.prev.kind = "none"

C27_WitnessEmpty ==
    /\ LoadAfterSave
    /\ tm_ret.prev.arg = EmptyDict
    /\ tm_ret.kind = "raise"

\* C28: a file-backed token manager can be constructed; after oauth data
\* with refresh token r was saved to it, loading the token returns r, the
\* last saved one; and a load on a store whose file does not exist returns
\* None without raising.
C28_RefreshTokenRoundTrips ==
    /\ LastCall("FileTokenManager") => tm_ret.kind # "raise"
    /\ (LastCall("load_token")
        /\ tm_ret.prev.op = "save_oauth_data" /\ tm_ret.prev.kind = "none") =>
          tm_ret.value = tm_ret.prev.arg["refresh_token"]
    /\ (LastCall("load_token") /\ ~sync_file.exists /\ tm_ret.prev.op = "none") =>
          tm_ret.value = None

\* C29: the lock taken for a critical section is released on every exit
\* path: whenever no with-block of the manager is being executed, whether
\* the last one returned or raised, the process holds no lock on the file.
C29_LockReleasedOnEveryExit ==
    /\ section = NoSection => lock = LOCK_UN
    /\ lock # LOCK_UN => section.op \in SaveOps \cup LoadOps \cup {"lock_device_activation"}
    /\ (section # NoSection /\ section.op \in SaveOps \cup {"lock_device_activation"}) =>
          lock = LOCK_EX
    /\ (section # NoSection /\ section.op \in LoadOps) => lock = LOCK_SH

\* a save whose body raised has ended and the lock is gone
C29_Witness ==
    /\ LastCall("save_pending_device_data")
    /\ tm_ret.kind = "raise"
    /\ sync_file = Truncated
    /\ lock = LOCK_UN

\* a lock_device_activation block whose body raised has ended
C29_WitnessActivation ==
    /\ LastCall("lock_device_activation")
    /\ tm_ret.value = "Exception"
    /\ lock = LOCK_UN

(* ================================================================== *)
(* Several processes construct Http on one sync file                    *)
(* ================================================================== *)
Procs == 1..NumProcs

\* the answer to the k-th device_authorize request: each flow has its own codes
DevicePayloadOf(k) ==
    [DevicePayload EXCEPT !.device_code = "dc" \o ToString(k),
                          !.user_code = "UC" \o ToString(k)]

\* a store without a usable refresh token
TokenlessFiles ==
    { MissingFile,
      SavePendingDeviceData(DevicePayload),
      SavePendingDeviceData(StoredPending(100)),
      SavePendingDeviceData(StoredPending(1)) }

NewProc ==
    [pc |-> "new", device_code |-> None, user_code |-> None,
     status |-> NOT_STARTED, request |-> 0, why |-> "none"]

MultiInit ==
    /\ now = 0 /\ ticks = 0
    /\ pc = "multi" /\ CtlAtRest /\ HttpAtRest /\ ObsAtRest
    /\ cur = GetIdRequest /\ url = None /\ id = NoneInt
    /\ given = NotGiven /\ seen = None
    /\ sync_file \in TokenlessFiles
    /\ tm_token_refresh = None
    /\ tm_refresh_at = now - InitialRefreshDelay
    /\ tm_ret = NoCall /\ lock = LOCK_UN /\ section = NoSection
    /\ procs = [p \in Procs |-> NewProc]
    /\ issued = 0
    /\ committed = EmptyDict

MultiFrame ==
    UNCHANGED <<ctlVars, httpVars, tm_token_refresh, tm_refresh_at, obsVars,
                descVars, storeVars, committed>>

\* __init__, lines 193-199: load_token() finds no refresh token
ProcConstruct(p) ==
    /\ pc = "multi"
    /\ procs[p].pc = "new"
    /\ procs' = [procs EXCEPT ![p].pc =
                   IF Truthy(LoadToken(sync_file, None)) THEN "refresh" ELSE "login"]
    /\ UNCHANGED <<clockVars, sync_file, issued>>
    /\ MultiFrame

\* _set_device_auth_data in process p: the data is saved, the codes are
\* set, line 496 raises
ProcSetDeviceAuthData(p, device_flow_data, k) ==
    /\ sync_file' = SavePendingDeviceData(device_flow_data)
    /\ procs' = [procs EXCEPT ![p] =
                   [pc |-> "raised",
                    device_code |-> Get(device_flow_data, "device_code"),
                    user_code |-> Get(device_flow_data, "user_code"),
                    status |-> procs[p].status,
                    request |-> k,
                    why |-> "AttributeError"]]

\* _login_device_flow up to the device_authorize request, lines 441-466:
\* has_pending_device_data() is one locked read of the file; nothing is
\* locked between it and the request or the save that follows
ProcLoginDeviceFlow(p) ==
    /\ pc = "multi"
    /\ procs[p].pc = "login"
    /\ LET pending == HasPendingDeviceData(sync_file, now)
       IN  CASE pending = "KeyError" ->
                  /\ procs' = [procs EXCEPT ![p].pc = "raised", ![p].why = "KeyError"]
                  /\ UNCHANGED <<sync_file, issued>>
             [] pending = "True" ->
                  /\ ProcSetDeviceAuthData(p, LoadPendingDeviceData(sync_file), 0)
                  /\ UNCHANGED issued
             [] pending = "False" ->
                  /\ issued' = issued + 1
                  /\ procs' = [procs EXCEPT ![p].pc = "authorize_wait",
                                            ![p].request = issued']
                  /\ UNCHANGED sync_file
    /\ UNCHANGED clockVars
    /\ MultiFrame

\* the endpoint answers process p's request
ProcAuthorizeAnswered(p) ==
    /\ pc = "multi"
    /\ procs[p].pc = "authorize_wait"
    /\ ProcSetDeviceAuthData(p, DevicePayloadOf(procs[p].request), procs[p].request)
    /\ UNCHANGED <<clockVars, issued>>
    /\ MultiFrame

\* the request fails: TadoException
ProcAuthorizeFailed(p) ==
    /\ pc = "multi"
    /\ procs[p].pc = "authorize_wait"
    /\ procs' = [procs EXCEPT ![p].pc = "raised", ![p].why = "TadoException"]
    /\ UNCHANGED <<clockVars, sync_file, issued>>
    /\ MultiFrame

\* time passes
MultiTick ==
    /\ pc = "multi"
    /\ ticks < MaxTicks
    /\ \E d \in TickSteps : now' = now + d
    /\ ticks' = ticks + 1
    /\ UNCHANGED <<ctlVars, httpVars, tmVars, obsVars, unitVars>>

MultiNext ==
    \/ \E p \in Procs : ProcConstruct(p)
    \/ \E p \in Procs : ProcLoginDeviceFlow(p)
    \/ \E p \in Procs : ProcAuthorizeAnswered(p)
    \/ \E p \in Procs : ProcAuthorizeFailed(p)
    \/ MultiTick

MultiSpec == MultiInit /\ [][MultiNext]_vars

\* C30: processes that share one token file never start two different
\* device-authorization flows: at most one device_authorize request is sent
\* while the pending record has not expired, and all processes that hold a
\* device code hold the same one.
C30_OneFlowForAllProcesses ==
    (\A p \in Procs : procs[p].pc = "raised") =>
      /\ issued <= 1
      /\ \A p, q \in Procs :
           (procs[p].device_code # None /\ procs[q].device_code # None) =>
              procs[p].device_code = procs[q].device_code

(* ------------------------------------------------------------------ *)
(* Headers and token state across calls                                 *)
(* ------------------------------------------------------------------ *)
\* C38: request() leaves the session's default headers as they were: the
\* Content-Type and Mime-Type set for a request with a payload are not on a
\* later request that has no payload.
C38_PayloadHeadersDoNotLeak ==
    (pc = "send" /\ cur.payload = None) =>
       /\ "Content-Type" \notin DOMAIN prepped
       /\ "Mime-Type" \notin DOMAIN prepped

\* C40: a refresh that fails, by a reply other than 200 or by a transport
\* error, leaves the token state as it was: neither the step that starts a
\* refresh nor the step in which it fails changes the Authorization header,
\* the refresh deadline, the refresh token of the instance or the document
\* in the token store.
C40_FailedRefreshKeepsTokenState ==
    [][((pc = "refresh_wait" /\ lastRefresh'.status # 200)
        \/ (pc # "refresh_wait" /\ pc' = "refresh_wait")) =>
          /\ headers' = headers
          /\ refresh_at' = refresh_at
          /\ token_refresh' = token_refresh
          /\ sync_file' = sync_file]_vars

\* a refresh was rejected after an earlier one had installed a token, and
\* the installed token is still in place
C40_Witness ==
    /\ lastRefresh.status = 400
    /\ grant.installed
    /\ "Authorization" \in DOMAIN headers
    /\ refresh_at = RefreshDeadline(grant.at, grant.expires_in)
    /\ sync_file = SaveToken(token_refresh)

\* __init__ has returned: an instance exists
Constructed == op # "init" \/ (pc = "done" /\ outcome = Ok)

\* C39: in every state after construction succeeded the status is PENDING
\* or COMPLETED; when it is COMPLETED the home id and is_x_line are
\* resolved, an Authorization header is installed, and user_code and
\* device_verification_url are None; when it is PENDING and a user code was
\* returned, device_verification_url is set.
C39_StatusInvariant ==
    Constructed =>
      /\ device_activation_status \in {PENDING, COMPLETED}
      /\ device_activation_status = COMPLETED =>
           /\ id # NoneInt
           /\ x_api # None
           /\ "Authorization" \in DOMAIN headers
           /\ user_code = None
           /\ device_verification_url = None
      /\ (device_activation_status = PENDING /\ Truthy(user_code)) =>
           device_verification_url # None

\* a constructed instance is sending a caller's request
C39_Witness ==
    /\ Constructed
    /\ op = "request" /\ pc = "send"
    /\ device_activation_status = COMPLETED
    /\ id = 1234
    /\ x_api = "False"
    /\ wire.auth \in { Bearer(a) : a \in AccessTokens }

\* C33: the refresh_token-grant request of an implicit refresh carries the
\* refresh token the token store holds at that moment, re-read from the
\* file, and not the one the instance kept from its own last refresh; a
\* token rotated by another process is the one the next refresh sends.
C33_RefreshSendsStoredToken ==
    (pc = "refresh_wait" /\ ~force) =>
       /\ wire.kind = "refresh_token"
       /\ OAUTH_DATA_KEY \in DOMAIN LoadSyncFile(sync_file)
       /\ wire.arg = LoadSyncFile(sync_file)[OAUTH_DATA_KEY]["refresh_token"]

\* the token another process saved is sent, not the one the instance holds
C33_Witness ==
    /\ pc = "refresh_wait" /\ ~force
    /\ wire.arg = RotatedToken
    /\ token_refresh \in { p.refresh_token : p \in TokenPayloads }
    /\ sync_file = SaveToken(RotatedToken)

\* the stored document holds a pending device authorization
PendingStored(f) == PENDING_DEVICE_KEY \in DOMAIN LoadSyncFile(f)

Resumed ==
    /\ FlowBegun
    /\ "device_authorize" \notin calls
    /\ PendingStored(sync_file)
    /\ device_code = LoadPendingDeviceData(sync_file).device_code

\* C35 (the claim as stated): a resumed pending authorization keeps its
\* absolute expiry; the deadline the polls of the new instance test is the
\* expires_at that was persisted when the code was issued.
C35_ResumeKeepsAbsoluteExpiry ==
    Resumed =>
        /\ expires_at # None
        /\ expires_at = LoadPendingDeviceData(sync_file).expires_at

\* ---------------------------------------------------------------------------
\* Several processes on one sync file: DeviceTokenManager._save_sync_file,
\* _load_sync_file, is_locked and lock_device_activation, step by step, with
\* the flock of each process.  The documents stay below the size of the
\* write buffer of the file object, so what json_dump wrote reaches the file
\* when the file object is closed.
\* ---------------------------------------------------------------------------

\* the documents the processes save: oauth data, a pending authorization
SharedDocs == {SaveToken("r0").data, SavePendingDeviceData(StoredPending(100)).data}

NoResult == [op |-> "none", kind |-> "none", value |-> None, allowed |-> {},
             busy |-> FALSE]

IdleProc == [at |-> "idle", arg |-> EmptyDict, held |-> LOCK_UN, allowed |-> {},
             busy |-> FALSE, last |-> NoResult]

\* another process holds a flock on the sync file
OtherHolds(p) == \E q \in Procs \ {p} : procs[q].held # LOCK_UN

\* flock(f, lock_type) without LOCK_NB returns once the lock can be granted
Flock(p, lock_type) ==
    \A q \in Procs \ {p} :
       IF lock_type = LOCK_EX THEN procs[q].held = LOCK_UN
       ELSE procs[q].held # LOCK_EX

\* flock(f, LOCK_EX | LOCK_SH): the call is refused with EINVAL (Linux), or
\* it is taken as a blocking LOCK_EX (BSD, macOS)
FlockBoth == {"EINVAL", LOCK_EX}

\* the processes that are between open(path, "w") and the close of a save
Saving == { q \in Procs : procs[q].at \in {"save_opened", "save_locked",
                                           "save_unlocked"} }

Loading == { q \in Procs : procs[q].at \in {"load_opened", "load_locked"} }

Finished(p, op_, kind, value) ==
    [IdleProc EXCEPT !.last = [op |-> op_, kind |-> kind, value |-> value,
                               allowed |-> procs[p].allowed,
                               busy |-> procs[p].busy]]

SharedInit ==
    /\ now = 0 /\ ticks = 0
    /\ pc = "shared" /\ CtlAtRest /\ HttpAtRest /\ ObsAtRest
    /\ cur = GetIdRequest /\ url = None /\ id = NoneInt
    /\ given = NotGiven /\ seen = None
    /\ sync_file \in {MissingFile, SaveToken("r0")}
    /\ tm_token_refresh = None
    /\ tm_refresh_at = now - InitialRefreshDelay
    /\ tm_ret = NoCall /\ lock = LOCK_UN /\ section = NoSection
    /\ procs = [p \in Procs |-> IdleProc]
    /\ issued = 0
    /\ committed = LoadSyncFile(sync_file)

SharedFrame ==
    UNCHANGED <<clockVars, ctlVars, httpVars, tm_token_refresh, tm_refresh_at,
                obsVars, descVars, storeVars, issued>>

\* _save_sync_file, line 125: open(path, "w") truncates the file
SaveOpen(p, data) ==
    /\ pc = "shared" /\ procs[p].at = "idle"
    /\ sync_file' = Truncated
    /\ procs' = [q \in Procs |->
                   IF q = p THEN [procs[p] EXCEPT !.at = "save_opened", !.arg = data]
                   ELSE IF q \in Loading
                   THEN [procs[q] EXCEPT !.allowed = @ \cup {data}]
                   ELSE procs[q]]
    /\ UNCHANGED committed
    /\ SharedFrame

\* line 126: FileLock.__enter__, flock(f, LOCK_EX)
SaveLock(p) ==
    /\ pc = "shared" /\ procs[p].at = "save_opened"
    /\ Flock(p, LOCK_EX)
    /\ procs' = [procs EXCEPT ![p].at = "save_locked", ![p].held = LOCK_EX]
    /\ UNCHANGED <<sync_file, committed>>
    /\ SharedFrame

\* line 128 and FileLock.__exit__: json_dump into the buffer, flock(f, LOCK_UN)
SaveUnlock(p) ==
    /\ pc = "shared" /\ procs[p].at = "save_locked"
    /\ procs' = [procs EXCEPT ![p].at = "save_unlocked",
                              ![p].held = Exit(procs[p].held, FALSE)]
    /\ UNCHANGED <<sync_file, committed>>
    /\ SharedFrame

\* the file object's __exit__: the buffer is written and the file closed
SaveClose(p) ==
    /\ pc = "shared" /\ procs[p].at = "save_unlocked"
    /\ sync_file' = SaveSyncFile(procs[p].arg)
    /\ committed' = procs[p].arg
    /\ procs' = [procs EXCEPT ![p] = Finished(p, "save", "none", None)]
    /\ SharedFrame

\* _load_sync_file, lines 137-142: {} without a file, else open(path)
LoadOpen(p) ==
    /\ pc = "shared" /\ procs[p].at = "idle"
    /\ LET seenDocs == {committed} \cup { procs[q].arg : q \in Saving }
       IN  procs' = [procs EXCEPT ![p] =
                       IF sync_file.exists
                       THEN [procs[p] EXCEPT !.at = "load_opened",
                                             !.allowed = seenDocs]
                       ELSE [Finished(p, "load", "none", EmptyDict)
                               EXCEPT !.last.allowed = seenDocs]]
    /\ UNCHANGED <<sync_file, committed>>
    /\ SharedFrame

\* line 143: FileLock.__enter__, flock(f, LOCK_SH)
LoadLock(p) ==
    /\ pc = "shared" /\ procs[p].at = "load_opened"
    /\ Flock(p, LOCK_SH)
    /\ procs' = [procs EXCEPT ![p].at = "load_locked", ![p].held = LOCK_SH]
    /\ UNCHANGED <<sync_file, committed>>
    /\ SharedFrame

\* lines 145-151: json_load; an empty file raises JSONDecodeError, which is
\* answered with {}
LoadRead(p) ==
    /\ pc = "shared" /\ procs[p].at = "load_locked"
    /\ procs' = [procs EXCEPT ![p] = Finished(p, "load", "none",
                                              LoadSyncFile(sync_file))]
    /\ UNCHANGED <<sync_file, committed>>
    /\ SharedFrame

\* is_locked, line 65: open(path) raises when there is no file
IsLockedOpen(p) ==
    /\ pc = "shared" /\ procs[p].at = "idle"
    /\ procs' = [procs EXCEPT ![p] =
                   IF sync_file.exists
                   THEN [procs[p] EXCEPT !.at = "check_opened",
                                         !.busy = OtherHolds(p)]
                   ELSE Finished(p, "is_locked", "raise", "FileNotFoundError")]
    /\ UNCHANGED <<sync_file, committed>>
    /\ SharedFrame

\* lines 66-70: FileLock(f, LOCK_EX | LOCK_SH).__enter__; only BlockingIOError
\* is answered with True
IsLockedFlock(p) ==
    /\ pc = "shared" /\ procs[p].at = "check_opened"
    /\ \E outcome_ \in FlockBoth :
         IF outcome_ = "EINVAL"
         THEN procs' = [procs EXCEPT ![p] =
                          Finished(p, "is_locked", "raise", "OSError")]
         ELSE /\ Flock(p, LOCK_EX)
              /\ procs' = [procs EXCEPT ![p] =
                             Finished(p, "is_locked", "none", "False")]
    /\ UNCHANGED <<sync_file, committed>>
    /\ SharedFrame

\* with lock_device_activation(msg): open(path), flock(f, LOCK_EX)
ActivationLock(p) ==
    /\ pc = "shared" /\ procs[p].at = "idle"
    /\ sync_file.exists
    /\ Flock(p, LOCK_EX)
    /\ procs' = [procs EXCEPT ![p].at = "activation", ![p].held = LOCK_EX]
    /\ UNCHANGED <<sync_file, committed>>
    /\ SharedFrame

\* the end of the block: FileLock.__exit__
ActivationUnlock(p) ==
    /\ pc = "shared" /\ procs[p].at = "activation"
    /\ procs' = [procs EXCEPT ![p] =
                   Finished(p, "lock_device_activation", "none", None)]
    /\ UNCHANGED <<sync_file, committed>>
    /\ SharedFrame

SharedNext ==
    \/ \E p \in Procs, data \in SharedDocs : SaveOpen(p, data)
    \/ \E p \in Procs : SaveLock(p)
    \/ \E p \in Procs : SaveUnlock(p)
    \/ \E p \in Procs : SaveClose(p)
    \/ \E p \in Procs : LoadOpen(p)
    \/ \E p \in Procs : LoadLock(p)
    \/ \E p \in Procs : LoadRead(p)
    \/ \E p \in Procs : IsLockedOpen(p)
    \/ \E p \in Procs : IsLockedFlock(p)
    \/ \E p \in Procs : ActivationLock(p)
    \/ \E p \in Procs : ActivationUnlock(p)

SharedSpec == SharedInit /\ [][SharedNext]_vars

\* C36 (the claim as stated): is_locked() returns true exactly when another
\* process holds the lock on the sync file at the call, false otherwise, and
\* it returns without waiting for the lock to be released.
C36_IsLockedReportsHolder ==
    \A p \in Procs :
       procs[p].last.op = "is_locked" =>
          /\ procs[p].last.kind = "none"
          /\ procs[p].last.value = (IF procs[p].last.busy THEN "True" ELSE "False")

\* C37 (the claim as stated): a load never observes a truncated document;
\* it returns the document stored when it began or the document of a save
\* that ran while it ran, and never {} while a record is stored.
C37_LoadSeesWholeDocument ==
    \A p \in Procs :
       procs[p].last.op = "load" => procs[p].last.value \in procs[p].last.allowed

\* a call that has been entered runs on: the session answers or fails, and
\* every handler step is taken.  Only the caller's next call is left open.
Running_ == pc # "idle" /\ Next

LiveSpec == Spec /\ WF_vars(Running_)

====
